---- MODULE Spec2Model ----
(***************************************************************************)
(* Verification model of the documentation site's icon components         *)
(* (IconArticle047, IconDiscord) and of the example contracts its         *)
(* tutorials publish (Hello / Echo message passing, Universal / Connected *)
(* cross-chain NFT).                                                       *)
(***************************************************************************)
EXTENDS Integers, Sequences, FiniteSets, TLC

VARIABLES
    last,       \* icons: the most recent render [comp, props, out]
    kept,       \* icons: some earlier render, remembered for comparison
    owner,      \* nft: owner[chain][tokenId], NoOwner when the token does not exist there
    tokenURIs,  \* nft: tokenURIs[chain][tokenId]
    counterparty, \* nft: Universal's counterparty[zrc20] and each Connected's counterparty
    nextTokenId, \* nft: each contract's _nextTokenId
    inflight,   \* nft: cross-chain transactions the gateways have accepted and not yet executed
    lastOp,     \* nft: outcome of the most recent contract call
    directCalls, \* nft: direct calls of onCall / onRevert that went through
    events,     \* hello: log of emitted events
    pending     \* hello: gateway calls accepted and not yet executed

iconVars == <<last, kept>>
nftVars == <<owner, tokenURIs, counterparty, nextTokenId, inflight, lastOp, directCalls>>
helloVars == <<events, pending>>
vars == <<last, kept, owner, tokenURIs, counterparty, nextTokenId, inflight, lastOp, directCalls,
          events, pending>>

(***************************************************************************)
(* Strings                                                                 *)
(***************************************************************************)
\* JavaScript truthiness of a string value.
Truthy(s) == s /= ""

\* t occurs in s as a substring.
Contains(s, t) ==
    \E i \in 1..(Len(s) - Len(t) + 1) : SubSeq(s, i, i + Len(t) - 1) = t

(***************************************************************************)
(* Icon components.  Props are a function from the names of the props     *)
(* that are present to their string values.                                *)
(***************************************************************************)
DiscordPathData ==
    "M30.1783 11.1038C28.3638 10.2757 26.4065 9.67613 24.3635 9.3335C24.3206 9.3335 24.292 9.34777 24.2635 9.37632C24.0063 9.81889 23.7348 10.3899 23.5348 10.8325C21.3346 10.5041 19.1487 10.5041 17.0057 10.8325C16.8199 10.3757 16.5342 9.81889 16.277 9.37632C16.2628 9.34777 16.2199 9.3335 16.1913 9.3335C14.1483 9.67613 12.191 10.29 10.3765 11.1038C10.3622 11.1038 10.348 11.118 10.3337 11.1323C6.63334 16.5716 5.61896 21.8823 6.11901 27.1217C6.11901 27.1503 6.1333 27.1788 6.16187 27.1931C8.59065 28.9634 10.9623 30.0341 13.2768 30.7479C13.3196 30.7622 13.3482 30.7479 13.3768 30.7193C13.9197 29.977 14.4197 29.2061 14.8341 28.378C14.8626 28.3352 14.8341 28.2781 14.7912 28.2495C14.0197 27.964 13.2768 27.6071 12.5624 27.2074C12.5053 27.1788 12.5053 27.0932 12.5481 27.0646C12.691 26.9504 12.8482 26.8362 12.991 26.722C13.0196 26.7077 13.0482 26.6934 13.0768 26.7077C17.7486 28.8063 22.8205 28.8063 27.4352 26.7077C27.4637 26.6934 27.5066 26.6934 27.5352 26.722C27.678 26.8362 27.8209 26.9504 27.9781 27.0646C28.0352 27.1074 28.0209 27.1788 27.9638 27.2074C27.2494 27.6214 26.5065 27.964 25.735 28.2495C25.6779 28.2638 25.6636 28.3209 25.6922 28.378C26.1208 29.1918 26.6065 29.977 27.1494 30.7051C27.178 30.7336 27.2066 30.7479 27.2494 30.7336C29.5782 30.0198 31.9498 28.9491 34.3929 27.1931C34.4072 27.1788 34.4215 27.1503 34.4358 27.1217C35.0358 21.0543 33.4357 15.8006 30.2068 11.1323C30.2068 11.1323 30.1926 11.118 30.1783 11.1038ZM15.5341 23.9381C14.1197 23.9381 12.9625 22.6675 12.9625 21.1114C12.9625 19.5553 14.1054 18.2847 15.5341 18.2847C16.9771 18.2847 18.1201 19.5696 18.1058 21.1114C18.1058 22.6675 16.9628 23.9381 15.5341 23.9381ZM25.035 23.9381C23.6205 23.9381 22.4633 22.6675 22.4633 21.1114C22.4633 19.5553 23.6063 18.2847 25.035 18.2847C26.4779 18.2847 27.6209 19.5696 27.6066 21.1114C27.6066 22.6675 26.4779 23.9381 25.035 23.9381Z"

Article047PathData == "M26 16H16V26H26V16ZM26 40H16V30H26V40ZM40 30V40H30V30H40ZM30 16H40V26H30V16Z"

DefaultColorTokens == "text-green-200 dark:text-green-100"

SvgNamespace == "http://www.w3.org/2000/svg"

\* A JSX element: its tag, its attributes and its child elements.
Element(tag, attrs, children) == [tag |-> tag, attrs |-> attrs, children |-> children]

\* The tags that draw something.
ShapeTags == {"path", "rect"}

\* The outcome of a render that throws.
RenderError == [tag |-> "error", attrs |-> <<>>, children |-> <<>>]

\* clsx(value, { key: cond }): the truthy class names joined by single spaces.
\* value is the set holding the string argument, empty when it is undefined.
clsx(value, key, cond) ==
    LET str == IF value /= {} /\ Truthy(CHOOSE s \in value : TRUE)
               THEN CHOOSE s \in value : TRUE
               ELSE ""
    IN  IF cond
        THEN (IF Truthy(str) THEN str \o " " ELSE "") \o key
        ELSE str

\* props.name, as the set of its values (empty when the prop is absent).
Prop(p, name) == IF name \in DOMAIN p THEN {p[name]} ELSE {}

\* { color, ...otherProps }: the props without color.
OtherProps(p) == [n \in (DOMAIN p) \ {"color"} |-> p[n]]

IconArticle047 ==
    Element("svg",
        [width |-> "56", height |-> "56", viewBox |-> "0 0 56 56", fill |-> "none",
         xmlns |-> SvgNamespace],
        << Element("rect",
               [width |-> "56", height |-> "56",
                className |-> "fill-white dark:fill-[transparent]"], <<>>),
           Element("g", [clipPath |-> "url(#clip0_2359_11703)"],
               << Element("rect", [x |-> "6", y |-> "6", width |-> "20", height |-> "20",
                      className |-> "fill-[#00D5FF] dark:fill-[#00A5C6]"], <<>>),
                  Element("rect", [x |-> "30", y |-> "6", width |-> "20", height |-> "20",
                      className |-> "fill-[#00D5FF] dark:fill-[#00A5C6]"], <<>>),
                  Element("rect", [x |-> "6", y |-> "30", width |-> "20", height |-> "20",
                      className |-> "fill-[#00D5FF] dark:fill-[#00A5C6]"], <<>>),
                  Element("rect", [x |-> "30", y |-> "30", width |-> "20", height |-> "20",
                      className |-> "fill-[#00D5FF] dark:fill-[#00A5C6]"], <<>>),
                  Element("rect", [x |-> "16", y |-> "16", width |-> "24", height |-> "24",
                      className |-> "fill-[#FF5AF1] dark:fill-[#006579]"], <<>>),
                  Element("path",
                      [fillRule |-> "evenodd", clipRule |-> "evenodd",
                       d |-> Article047PathData,
                       className |-> "fill-[#006579] dark:fill-[#FF5AF1]"], <<>>) >>),
           Element("defs", <<>>,
               << Element("clipPath", [id |-> "clip0_2359_11703"],
                      << Element("rect", [width |-> "44", height |-> "44", fill |-> "white",
                             transform |-> "translate(6 6)"], <<>>) >>) >>) >>)

\* IconDiscordSvgAttrs with className written before the spread, so that a
\* className in otherProps replaces the computed one.
IconDiscordSvgAttrsSpreadLast(otherProps) ==
    otherProps
    @@ [className |->
        clsx(Prop(otherProps, "className"), DefaultColorTokens,
             \A c \in Prop(otherProps, "className") : ~Truthy(c))]
    @@ [width |-> "40", height |-> "40", viewBox |-> "0 0 40 40", fill |-> "none",
        xmlns |-> SvgNamespace]

\* IconDiscordSvgAttrs with the spread written before the literals, so that
\* width, height, viewBox, fill and xmlns in otherProps are replaced by them.
IconDiscordSvgAttrsLiteralsLast(otherProps) ==
    [className |->
        clsx(Prop(otherProps, "className"), DefaultColorTokens,
             \A c \in Prop(otherProps, "className") : ~Truthy(c))]
    @@ [width |-> "40", height |-> "40", viewBox |-> "0 0 40 40", fill |-> "none",
        xmlns |-> SvgNamespace]
    @@ otherProps

\* The svg attributes of IconDiscord: the literals, then the spread of
\* otherProps over them, then className over both.
IconDiscordSvgAttrs(otherProps) ==
    [className |->
        clsx(Prop(otherProps, "className"), DefaultColorTokens,
             \A c \in Prop(otherProps, "className") : ~Truthy(c))]
    @@ otherProps
    @@ [width |-> "40", height |-> "40", viewBox |-> "0 0 40 40", fill |-> "none",
        xmlns |-> SvgNamespace]

\* IconDiscordFill that ignores the color prop.
IconDiscordFillIgnoresColor(p) == "currentColor"

\* fill={color || "currentColor"}
IconDiscordFill(p) ==
    IF \E c \in Prop(p, "color") : Truthy(c) THEN p["color"] ELSE "currentColor"

\* IconDiscord that returns what it rendered last time, whatever the props.
IconDiscordCached(p) ==
    IF last.comp = "IconDiscord" THEN last.out
    ELSE Element("svg", IconDiscordSvgAttrs(OtherProps(p)),
             << Element("path", [d |-> DiscordPathData, fill |-> IconDiscordFill(p)], <<>>) >>)

\* IconDiscord that reads className.length without checking for undefined.
IconDiscordUnguarded(p) ==
    IF "className" \notin DOMAIN p THEN RenderError
    ELSE Element("svg", IconDiscordSvgAttrs(OtherProps(p)),
             << Element("path", [d |-> DiscordPathData, fill |-> IconDiscordFill(p)], <<>>) >>)

IconDiscord(p) ==
    Element("svg", IconDiscordSvgAttrs(OtherProps(p)),
        << Element("path", [d |-> DiscordPathData, fill |-> IconDiscordFill(p)], <<>>) >>)

\* The prop values the renders are tried with.
ColorValues == {"", "#5865F2"}
ClassNameValues == {"", "h-6 w-6"}
PassThroughValues == [width |-> {"24"}, height |-> {"24"}, viewBox |-> {"0 0 24 24"}]
PropValues == [color |-> ColorValues, className |-> ClassNameValues] @@ PassThroughValues
PropNames == DOMAIN PropValues

\* Every props object over PropNames: each prop absent or one of its values.
AllProps ==
    UNION { { p \in [S -> UNION {PropValues[n] : n \in S}] :
                \A n \in S : p[n] \in PropValues[n] } : S \in SUBSET PropNames }

NoRender == [comp |-> "none", props |-> <<>>, out |-> RenderError]

IconInit ==
    /\ last = NoRender
    /\ kept = NoRender

\* One render is remembered for as long as the observer likes; the new render
\* becomes the latest one.
Remember == kept' \in {kept, last}

RenderIconDiscord ==
    \E p \in AllProps :
        /\ last' = [comp |-> "IconDiscord", props |-> p, out |-> IconDiscord(p)]
        /\ Remember
        /\ UNCHANGED <<nftVars, helloVars>>

RenderIconArticle047 ==
    /\ last' = [comp |-> "IconArticle047", props |-> <<>>, out |-> IconArticle047]
    /\ Remember
    /\ UNCHANGED <<nftVars, helloVars>>

(***************************************************************************)
(* Universal NFT: the Universal contract on ZetaChain and one Connected   *)
(* contract on each connected chain, joined by the gateways.              *)
(***************************************************************************)
MaxMints == 1       \* safeMint calls explored
MaxInFlight == 1    \* cross-chain transactions pending at a time
MaxDirectCalls == 1 \* direct calls of onCall / onRevert that go through

ZetaChain == "zeta"
ConnectedChains == {"eth", "bnb"}
Chains == {ZetaChain} \cup ConnectedChains

ZeroAddress == "0x0"
EmptyBytes == ""
UniversalAddress == "Universal"
ConnectedAddress == [eth |-> "Connected.eth", bnb |-> "Connected.bnb"]
ContractAddress(c) == IF c = ZetaChain THEN UniversalAddress ELSE ConnectedAddress[c]

\* The ZRC-20 gas token of each connected chain; it names the chain on ZetaChain.
ZRC20 == [eth |-> "ZRC20.eth", bnb |-> "ZRC20.bnb"]
ZRC20s == {ZRC20[c] : c \in ConnectedChains}
ChainOf(zrc20) == CHOOSE c \in ConnectedChains : ZRC20[c] = zrc20

ContractOwner == "alice"           \* initialOwner of every contract
Users == {"alice", "mallory"}      \* externally owned accounts
Receivers == Users \cup {"vault"}
\* vault is a contract without onERC721Received on this chain.
NonReceivers == {<<"eth", "vault">>}
Destinations == {ZeroAddress} \cup ZRC20s

\* hash & 0x00FF..FF of (address(this), block.number, _nextTokenId): one id
\* for each contract and counter value.
TokenIdOf(c, n) == <<c, n>>
TokenIds == {TokenIdOf(c, n) : c \in Chains, n \in 0..(MaxMints - 1)}
\* The ids safeMint has handed out so far.
IssuedIds == {t \in TokenIds : t[2] < nextTokenId[t[1]]}
\* The tokens that exist on chain c.  transferCrossChain of any other token
\* reverts with ERC721NonexistentToken and changes nothing.
Existing(c) == {t \in TokenIds : owner[c][t] /= ZeroAddress}

\* abi.encode of a tuple is the tuple; abi.decode reads the first n values
\* and reverts (the empty set) when the data is too short.
abi_encode(values) == values
abi_decode(data, n) == IF Len(data) >= n THEN {SubSeq(data, 1, n)} ELSE {}

RevertOptions(revertAddress, callOnRevert, revertMessage) ==
    [revertAddress |-> revertAddress, callOnRevert |-> callOnRevert,
     revertMessage |-> revertMessage]

\* The result of a contract call on chain c: either it reverted, or it left
\* the contract's tokens as (own, uris) and made the gateway calls `calls`.
Reverted(reason) ==
    [reverted |-> TRUE, reason |-> reason, own |-> <<>>, uris |-> <<>>,
     minted |-> {}, calls |-> {}]
Returned(own, uris, minted, calls) ==
    [reverted |-> FALSE, reason |-> "", own |-> own, uris |-> uris,
     minted |-> minted, calls |-> calls]

\* ERC721._safeMint then ERC721URIStorage._setTokenURI on chain c.
SafeMintAndSetURI(c, to, tokenId, uri) ==
    IF to = ZeroAddress \/ <<c, to>> \in NonReceivers
    THEN Reverted("ERC721InvalidReceiver")
    ELSE IF owner[c][tokenId] /= ZeroAddress
    THEN Reverted("ERC721InvalidSender")
    ELSE Returned([owner[c] EXCEPT ![tokenId] = to],
                  [tokenURIs[c] EXCEPT ![tokenId] = uri],
                  {[chain |-> c, tokenId |-> tokenId, to |-> to, uri |-> uri]}, {})

\* ERC721._burn: no owner or approval check; the token must exist.
Burn(c, tokenId) == [owner[c] EXCEPT ![tokenId] = ZeroAddress]
ClearURI(c, tokenId) == [tokenURIs[c] EXCEPT ![tokenId] = ""]

\* Universal.counterparty[zrc20]: empty bytes for a key never set.
UniversalCounterparty(zrc20) ==
    IF zrc20 \in ZRC20s THEN counterparty[ZetaChain][zrc20] ELSE EmptyBytes

\* A call a contract makes to its gateway.
GatewayCall(receiver, zrc20, message, revertOptions) ==
    [receiver |-> receiver, zrc20 |-> zrc20, message |-> message,
     revertOptions |-> revertOptions]

UniversalTransferCrossChain(msgSender, tokenId, receiver, destination, feePaid) ==
    IF owner[ZetaChain][tokenId] = ZeroAddress
    THEN Reverted("ERC721NonexistentToken")
    ELSE LET uri == tokenURIs[ZetaChain][tokenId]
             encodedData == abi_encode(<<tokenId, receiver, uri>>)
             revertOptions == RevertOptions(UniversalAddress, TRUE, encodedData)
         IN  IF destination \notin ZRC20s
             THEN Reverted("withdrawGasFeeWithGasLimit")
             ELSE IF ~feePaid
             THEN Reverted("TransferFailed")
             ELSE IF UniversalCounterparty(destination) = EmptyBytes
             THEN Reverted("ZeroAddress")
             ELSE Returned(Burn(ZetaChain, tokenId), ClearURI(ZetaChain, tokenId), {},
                     {GatewayCall(UniversalCounterparty(destination), destination,
                                  encodedData, revertOptions)})

\* ForwardedData that forgets the URI.
ForwardedDataWithoutURI(tokenId, sender, uri) == abi_encode(<<tokenId, sender, "">>)

\* abi.encode(tokenId, sender, uri): the message onCall forwards.
ForwardedData(tokenId, sender, uri) == abi_encode(<<tokenId, sender, uri>>)

\* ForwardTarget that takes the ZRC-20 of the incoming call.
ForwardTargetIncoming(zrc20, destination) == zrc20

\* The ZRC-20 onCall forwards to: the destination of the message.
ForwardTarget(zrc20, destination) == destination

UniversalOnCall(context, zrc20, message) ==
    IF context.origin /= UniversalCounterparty(zrc20)
    THEN Reverted("Unauthorized")
    ELSE IF abi_decode(message, 4) = {}
    THEN Reverted("abi.decode")
    ELSE LET decoded == CHOOSE d \in abi_decode(message, 4) : TRUE
             tokenId == decoded[1]
             sender == decoded[2]
             uri == decoded[3]
             destination == decoded[4]
         IN  IF destination = ZeroAddress
             THEN SafeMintAndSetURI(ZetaChain, sender, tokenId, uri)
             ELSE IF destination \notin ZRC20s
             THEN Reverted("withdrawGasFeeWithGasLimit")
             ELSE IF UniversalCounterparty(ForwardTarget(zrc20, destination)) = EmptyBytes
             THEN Reverted("ZeroAddress")
             ELSE Returned(owner[ZetaChain], tokenURIs[ZetaChain], {},
                     {GatewayCall(UniversalCounterparty(ForwardTarget(zrc20, destination)),
                                  ForwardTarget(zrc20, destination),
                                  ForwardedData(tokenId, sender, uri),
                                  RevertOptions(ZeroAddress, FALSE, EmptyBytes))})

\* onRevert of Universal (c = ZetaChain) and of Connected: the same code.
OnRevert(c, context) ==
    IF abi_decode(context.revertMessage, 3) = {}
    THEN Reverted("abi.decode")
    ELSE LET decoded == CHOOSE d \in abi_decode(context.revertMessage, 3) : TRUE
             tokenId == decoded[1]
             sender == decoded[2]
             uri == decoded[3]
         IN  SafeMintAndSetURI(c, sender, tokenId, uri)

UniversalOnRevert(context) == OnRevert(ZetaChain, context)

ConnectedOnRevert(c, context) == OnRevert(c, context)

ConnectedTransferCrossChain(c, msgSender, tokenId, receiver, destination) ==
    IF owner[c][tokenId] = ZeroAddress
    THEN Reverted("ERC721NonexistentToken")
    ELSE LET uri == tokenURIs[c][tokenId]
             encodedData == abi_encode(<<tokenId, receiver, uri, destination>>)
             revertOptions == RevertOptions(ConnectedAddress[c], TRUE, encodedData)
         IN  IF counterparty[c] = ZeroAddress
             THEN Reverted("ZeroAddress")
             ELSE Returned(Burn(c, tokenId), ClearURI(c, tokenId), {},
                     {GatewayCall(counterparty[c], ZRC20[c], encodedData, revertOptions)})

ConnectedOnCall(c, messageContext, message) ==
    IF messageContext.sender /= counterparty[c]
    THEN Reverted("Unauthorized")
    ELSE IF abi_decode(message, 3) = {}
    THEN Reverted("abi.decode")
    ELSE LET decoded == CHOOSE d \in abi_decode(message, 3) : TRUE
             tokenId == decoded[1]
             receiver == decoded[2]
             uri == decoded[3]
         IN  SafeMintAndSetURI(c, receiver, tokenId, uri)

\* safeMint of Universal and of Connected: the same code, onlyOwner.
SafeMint(c, msgSender, to, uri) ==
    IF msgSender /= ContractOwner
    THEN Reverted("OwnableUnauthorizedAccount")
    ELSE SafeMintAndSetURI(c, to, TokenIdOf(c, nextTokenId[c]), uri)

(***************************************************************************)
(* Cross-chain transactions.  history is what a transfer started from: the *)
(* account that called transferCrossChain, the (tokenId, uri) it burned    *)
(* and the destination it asked for; route is the chains visited so far.   *)
(***************************************************************************)
NoCctx == [kind |-> "none"]
NoContext == [origin |-> "none", zrc20 |-> "none"]

History(caller, burned, destination) ==
    [caller |-> caller, burned |-> burned, destination |-> destination]

\* The history of a call no transferCrossChain started.
NoTransfer(caller) == History(caller, <<>>, "none")

Cctx(kind, src, dst, sender, call, history, route) ==
    [kind |-> kind, src |-> src, dst |-> dst, sender |-> sender,
     receiver |-> call.receiver, zrc20 |-> call.zrc20, message |-> call.message,
     revertOptions |-> call.revertOptions,
     caller |-> history.caller, burned |-> history.burned,
     destination |-> history.destination, route |-> route]

HistoryOf(m) == History(m.caller, m.burned, m.destination)

\* GatewayEVM.call / depositAndCall on chain c: always a call to ZetaChain.
FromConnected(c, call, history) ==
    Cctx("call", c, ZetaChain, ConnectedAddress[c], call, history, <<c, ZetaChain>>)

\* GatewayZEVM.call: an authenticated call to the chain of the ZRC-20.
FromZetaChain(call, history, route) ==
    Cctx("call", ZetaChain, ChainOf(call.zrc20), UniversalAddress, call, history,
         Append(route, ChainOf(call.zrc20)))

\* The destination reverted and the revert options ask for onRevert on the
\* revert address of the source chain, with the revert message.
RevertOf(m) ==
    Cctx("revert", m.dst, m.src, "gateway",
         GatewayCall(m.revertOptions.revertAddress, m.zrc20, m.revertOptions.revertMessage,
                     RevertOptions(ZeroAddress, FALSE, EmptyBytes)),
         HistoryOf(m), Append(m.route, m.src))

Op(name, c, sender, context, r, m, sent) ==
    [op |-> name, chain |-> c, sender |-> sender, context |-> context,
     reverted |-> r.reverted, reason |-> r.reason, minted |-> r.minted, msg |-> m,
     sent |-> sent]

\* The effect of a call on chain c with result r.  A call that reverts
\* changes no contract state; of the calls accounts make, only a reverted
\* onCall is recorded.
Commit(name, c, sender, context, r, m, sent, retired) ==
    IF r.reverted
    THEN /\ lastOp' = IF sender = "gateway" THEN Op(name, c, sender, context, r, m, {})
                      ELSE IF name = "onCall" THEN Op(name, c, "account", context, r, m, {})
                      ELSE lastOp
         /\ UNCHANGED <<owner, tokenURIs>>
         /\ inflight' = inflight \ retired
    ELSE /\ lastOp' = Op(name, c, sender, context, r, m, sent)
         /\ owner' = [owner EXCEPT ![c] = r.own]
         /\ tokenURIs' = [tokenURIs EXCEPT ![c] = r.uris]
         /\ inflight' = (inflight \ retired) \cup sent

NftInit ==
    /\ owner = [c \in Chains |-> [t \in TokenIds |-> ZeroAddress]]
    /\ tokenURIs = [c \in Chains |-> [t \in TokenIds |-> ""]]
    /\ counterparty = [c \in Chains |->
                         IF c = ZetaChain THEN [z \in ZRC20s |-> EmptyBytes]
                         ELSE ZeroAddress]
    /\ nextTokenId = [c \in Chains |-> 0]
    /\ inflight = {}
    /\ directCalls = 0
    /\ lastOp = Op("constructor", ZetaChain, ContractOwner, NoContext,
                   Returned(<<>>, <<>>, {}, {}), NoCctx, {})

Minted == nextTokenId[ZetaChain] + nextTokenId["eth"] + nextTokenId["bnb"]

\* Universal.setCounterparty, by the owner.
SetCounterpartyUniversal ==
    \E zrc20 \in ZRC20s :
        /\ counterparty' =
               [counterparty EXCEPT ![ZetaChain][zrc20] = ConnectedAddress[ChainOf(zrc20)]]
        /\ lastOp' = Op("setCounterparty", ZetaChain, ContractOwner, NoContext,
                        Returned(<<>>, <<>>, {}, {}), NoCctx, {})
        /\ UNCHANGED <<owner, tokenURIs, nextTokenId, inflight, directCalls, iconVars, helloVars>>

\* Connected.setCounterparty, by the owner.
SetCounterpartyConnected ==
    \E c \in ConnectedChains :
        /\ counterparty' = [counterparty EXCEPT ![c] = UniversalAddress]
        /\ lastOp' = Op("setCounterparty", c, ContractOwner, NoContext,
                        Returned(<<>>, <<>>, {}, {}), NoCctx, {})
        /\ UNCHANGED <<owner, tokenURIs, nextTokenId, inflight, directCalls, iconVars, helloVars>>

MintURIs == {"ipfs://a"}

\* The deployment is complete: every contract knows its counterparties.
Deployed ==
    /\ \A z \in ZRC20s : counterparty[ZetaChain][z] /= EmptyBytes
    /\ \A c \in ConnectedChains : counterparty[c] /= ZeroAddress

\* The owner mints once the contracts are deployed and connected, as the
\* deployment script does.
CallSafeMint ==
    \E c \in Chains, msgSender \in Users, to \in Receivers, uri \in MintURIs :
        /\ Deployed
        /\ Minted < MaxMints
        /\ LET r == SafeMint(c, msgSender, to, uri)
           IN  /\ Commit("safeMint", c, msgSender, NoContext, r, NoCctx, {}, {})
               /\ nextTokenId' = IF r.reverted THEN nextTokenId
                                 ELSE [nextTokenId EXCEPT ![c] = @ + 1]
        /\ UNCHANGED <<counterparty, directCalls, iconVars, helloVars>>

CallUniversalTransferCrossChain ==
    \E msgSender \in Users, tokenId \in Existing(ZetaChain), receiver \in Receivers,
       destination \in Destinations, feePaid \in BOOLEAN :
        /\ Cardinality(inflight) < MaxInFlight
        /\ LET r == UniversalTransferCrossChain(msgSender, tokenId, receiver,
                                                destination, feePaid)
               history == History(msgSender, <<tokenId, tokenURIs[ZetaChain][tokenId]>>,
                                  destination)
               sent == {FromZetaChain(call, history, <<ZetaChain>>) : call \in r.calls}
           IN  Commit("transferCrossChain", ZetaChain, msgSender, NoContext, r, NoCctx,
                      sent, {})
        /\ UNCHANGED <<counterparty, nextTokenId, directCalls, iconVars, helloVars>>

CallConnectedTransferCrossChain ==
    \E c \in ConnectedChains, msgSender \in Users, receiver \in Receivers,
       destination \in Destinations :
      \E tokenId \in Existing(c) :
        /\ Cardinality(inflight) < MaxInFlight
        /\ LET r == ConnectedTransferCrossChain(c, msgSender, tokenId, receiver, destination)
               history == History(msgSender, <<tokenId, tokenURIs[c][tokenId]>>, destination)
               sent == {FromConnected(c, call, history) : call \in r.calls}
           IN  Commit("transferCrossChain", c, msgSender, NoContext, r, NoCctx, sent, {})
        /\ UNCHANGED <<counterparty, nextTokenId, directCalls, iconVars, helloVars>>

\* The ZetaChain gateway executes a call from a connected chain.
GatewayExecuteOnZetaChain ==
    \E m \in inflight :
        /\ m.kind = "call" /\ m.dst = ZetaChain
        /\ LET context == [origin |-> m.sender, zrc20 |-> m.zrc20]
               r == IF m.receiver = UniversalAddress
                    THEN UniversalOnCall([origin |-> m.sender, chainID |-> m.src],
                                         m.zrc20, m.message)
                    ELSE Reverted("no contract")
               sent == {FromZetaChain(call, HistoryOf(m), m.route) : call \in r.calls}
           IN  IF r.reverted /\ m.revertOptions.callOnRevert
               THEN /\ lastOp' = Op("onCall", ZetaChain, "gateway", context, r, m,
                                    {RevertOf(m)})
                    /\ inflight' = (inflight \ {m}) \cup {RevertOf(m)}
                    /\ UNCHANGED <<owner, tokenURIs>>
               ELSE Commit("onCall", ZetaChain, "gateway", context, r, m, sent, {m})
        /\ UNCHANGED <<counterparty, nextTokenId, directCalls, iconVars, helloVars>>

\* The gateway of a connected chain executes a call from ZetaChain.
GatewayExecuteOnConnected ==
    \E m \in inflight :
        /\ m.kind = "call" /\ m.dst \in ConnectedChains
        /\ LET context == [origin |-> m.sender, zrc20 |-> "none"]
               r == IF m.receiver = ConnectedAddress[m.dst]
                    THEN ConnectedOnCall(m.dst, [sender |-> m.sender], m.message)
                    ELSE Reverted("no contract")
           IN  IF r.reverted /\ m.revertOptions.callOnRevert
               THEN /\ lastOp' = Op("onCall", m.dst, "gateway", context, r, m, {RevertOf(m)})
                    /\ inflight' = (inflight \ {m}) \cup {RevertOf(m)}
                    /\ UNCHANGED <<owner, tokenURIs>>
               ELSE Commit("onCall", m.dst, "gateway", context, r, m, {}, {m})
        /\ UNCHANGED <<counterparty, nextTokenId, directCalls, iconVars, helloVars>>

\* A gateway executes onRevert on the source chain of a failed call.
GatewayExecuteRevert ==
    \E m \in inflight :
        /\ m.kind = "revert"
        /\ LET context == [revertMessage |-> m.message]
               r == IF m.receiver /= ContractAddress(m.dst) THEN Reverted("no contract")
                    ELSE IF m.dst = ZetaChain THEN UniversalOnRevert(context)
                    ELSE ConnectedOnRevert(m.dst, context)
           IN  Commit("onRevert", m.dst, "gateway", NoContext, r, m, {}, {m})
        /\ UNCHANGED <<counterparty, nextTokenId, directCalls, iconVars, helloVars>>

(***************************************************************************)
(* Direct calls.  onCall and onRevert are external functions that do not  *)
(* look at msg.sender, so any account can call them with a context and a  *)
(* message of its choice.                                                  *)
(***************************************************************************)
DirectCallers == {"mallory"}
ForgedURI == "ipfs://evil"

DirectUniversalOnCall ==
    \E a \in DirectCallers, zrc20 \in ZRC20s, tokenId \in IssuedIds,
       destination \in Destinations :
      \E origin \in {UniversalCounterparty(zrc20), a} :
        LET r == UniversalOnCall([origin |-> origin, chainID |-> ChainOf(zrc20)], zrc20,
                                 abi_encode(<<tokenId, a, ForgedURI, destination>>))
            sent == {FromZetaChain(call, NoTransfer(a), <<ZetaChain>>) : call \in r.calls}
        IN  /\ r.calls /= {} => Cardinality(inflight) < MaxInFlight
            /\ Commit("onCall", ZetaChain, a, [origin |-> origin, zrc20 |-> zrc20], r,
                      NoCctx, sent, {})
            /\ directCalls < MaxDirectCalls
            /\ directCalls' = IF r.reverted THEN directCalls ELSE directCalls + 1
            /\ UNCHANGED <<counterparty, nextTokenId, iconVars, helloVars>>

DirectConnectedOnCall ==
    \E a \in DirectCallers, c \in ConnectedChains, tokenId \in IssuedIds :
      \E sender \in {counterparty[c], a} :
        LET r == ConnectedOnCall(c, [sender |-> sender],
                                 abi_encode(<<tokenId, a, ForgedURI>>))
        IN  /\ Commit("onCall", c, a, [origin |-> sender, zrc20 |-> "none"], r,
                      NoCctx, {}, {})
            /\ directCalls < MaxDirectCalls
            /\ directCalls' = IF r.reverted THEN directCalls ELSE directCalls + 1
            /\ UNCHANGED <<counterparty, nextTokenId, iconVars, helloVars>>

DirectOnRevert ==
    \E a \in DirectCallers, c \in Chains, tokenId \in IssuedIds :
        LET context == [revertMessage |-> abi_encode(<<tokenId, a, ForgedURI>>)]
            r == IF c = ZetaChain THEN UniversalOnRevert(context)
                 ELSE ConnectedOnRevert(c, context)
        IN  /\ Commit("onRevert", c, a, NoContext, r, NoCctx, {}, {})
            /\ directCalls < MaxDirectCalls
            /\ directCalls' = IF r.reverted THEN directCalls ELSE directCalls + 1
            /\ UNCHANGED <<counterparty, nextTokenId, iconVars, helloVars>>

(***************************************************************************)
(* Message passing: Hello on ZetaChain and Echo on a connected EVM chain. *)
(***************************************************************************)
MaxEvents == 3      \* events logged

HelloAddress == "Hello"
EchoAddress == "Echo"
Names == {"alice", "bob"}
\* abi.encode(name), and bytes that do not decode as a string.
HelloMessages == {abi_encode(<<n>>) : n \in Names} \cup {<<>>}

Event(contract, event, text, arg, msgSender) ==
    [contract |-> contract, event |-> event, text |-> text, arg |-> arg,
     msgSender |-> msgSender]

\* Hello.onCall: the events it emits, none when abi.decode reverts.
HelloOnCall(msgSender, message) ==
    IF abi_decode(message, 1) = {} THEN <<>>
    ELSE LET name == (CHOOSE d \in abi_decode(message, 1) : TRUE)[1]
         IN  << Event(HelloAddress, "HelloEvent", "Hello on ZetaChain", name, msgSender) >>

HelloOnRevert(msgSender, revertContext) ==
    << Event(HelloAddress, "RevertEvent", "Revert on ZetaChain", revertContext, msgSender) >>

\* Echo.hello(string): called with the message as its calldata.
EchoHello(msgSender, message) ==
    IF abi_decode(message, 1) = {} THEN <<>>
    ELSE LET text == (CHOOSE d \in abi_decode(message, 1) : TRUE)[1]
         IN  << Event(EchoAddress, "HelloEvent", "Hello on EVM", text, msgSender) >>

EchoOnRevert(msgSender, revertContext) ==
    << Event(EchoAddress, "RevertEvent", "Revert on EVM", revertContext, msgSender) >>

HelloCctx(kind, dst, sender, receiver, message, callOnRevert) ==
    [kind |-> kind, dst |-> dst, sender |-> sender, receiver |-> receiver,
     message |-> message, callOnRevert |-> callOnRevert]

HelloInit ==
    /\ events = <<>>
    /\ pending = {}

\* Echo.call(receiver, message, revertOptions): gateway.call to ZetaChain.
CallEchoCall ==
    \E message \in HelloMessages, callOnRevert \in BOOLEAN :
        /\ Cardinality(pending) < MaxInFlight
        /\ pending' = pending \cup
               {HelloCctx("call", ZetaChain, EchoAddress, HelloAddress, message, callOnRevert)}
        /\ UNCHANGED <<events, iconVars, nftVars>>

\* Hello.call(receiver, zrc20, message, gasLimit, revertOptions).
CallHelloCall ==
    \E message \in HelloMessages, callOnRevert \in BOOLEAN, feePaid \in BOOLEAN :
        /\ Cardinality(pending) < MaxInFlight
        /\ pending' = IF ~feePaid THEN pending
                      ELSE pending \cup
                           {HelloCctx("call", "evm", HelloAddress, EchoAddress, message,
                                      callOnRevert)}
        /\ UNCHANGED <<events, iconVars, nftVars>>

\* Hello.withdrawAndCall(receiver, amount, zrc20, message, gasLimit, revertOptions).
CallHelloWithdrawAndCall ==
    \E message \in HelloMessages, callOnRevert \in BOOLEAN, feePaid \in BOOLEAN :
        /\ Cardinality(pending) < MaxInFlight
        /\ pending' = IF ~feePaid THEN pending
                      ELSE pending \cup
                           {HelloCctx("withdrawAndCall", "evm", HelloAddress, EchoAddress,
                                      message, callOnRevert)}
        /\ UNCHANGED <<events, iconVars, nftVars>>

\* A gateway executes a pending call or revert; a call that reverts is
\* answered with onRevert on its sender when the revert options ask for it.
GatewayExecuteHello ==
    \E m \in pending :
        /\ Len(events) < MaxEvents
        /\ LET emitted ==
                   IF m.kind = "revert"
                   THEN IF m.dst = ZetaChain THEN HelloOnRevert("gateway", m.message)
                        ELSE EchoOnRevert("gateway", m.message)
                   ELSE IF m.dst = ZetaChain THEN HelloOnCall("gateway", m.message)
                   ELSE EchoHello("gateway", m.message)
               back == IF emitted = <<>> /\ m.kind /= "revert" /\ m.callOnRevert
                       THEN {HelloCctx("revert", IF m.dst = ZetaChain THEN "evm" ELSE ZetaChain,
                                       "gateway", m.sender, m.message, FALSE)}
                       ELSE {}
           IN  /\ events' = events \o emitted
               /\ pending' = (pending \ {m}) \cup back
        /\ UNCHANGED <<iconVars, nftVars>>

\* Hello.onCall is external and unguarded: an account calls it directly.
DirectHelloOnCall ==
    \E a \in Users, message \in HelloMessages :
        /\ Len(events) < MaxEvents
        /\ events' = events \o HelloOnCall(a, message)
        /\ UNCHANGED <<pending, iconVars, nftVars>>

(***************************************************************************)
(* Specifications                                                          *)
(***************************************************************************)
Init == IconInit /\ NftInit /\ HelloInit

\* The NFT contracts and their gateways, with the owner and the users calling
\* safeMint, setCounterparty and transferCrossChain.
Next ==
    \/ SetCounterpartyUniversal
    \/ SetCounterpartyConnected
    \/ CallSafeMint
    \/ CallUniversalTransferCrossChain
    \/ CallConnectedTransferCrossChain
    \/ GatewayExecuteOnZetaChain
    \/ GatewayExecuteOnConnected
    \/ GatewayExecuteRevert

Spec == Init /\ [][Next]_vars

\* The same, and accounts that call onCall and onRevert directly.
NextOpen ==
    \/ SetCounterpartyUniversal
    \/ SetCounterpartyConnected
    \/ CallSafeMint
    \/ CallUniversalTransferCrossChain
    \/ CallConnectedTransferCrossChain
    \/ GatewayExecuteOnZetaChain
    \/ GatewayExecuteOnConnected
    \/ GatewayExecuteRevert
    \/ DirectUniversalOnCall
    \/ DirectConnectedOnCall
    \/ DirectOnRevert

SpecOpen == Init /\ [][NextOpen]_vars

\* Renders of the icon components.
NextIcon ==
    \/ RenderIconDiscord
    \/ RenderIconArticle047

SpecIcon == Init /\ [][NextIcon]_vars

\* Hello and Echo.
NextHello ==
    \/ CallEchoCall
    \/ CallHelloCall
    \/ CallHelloWithdrawAndCall
    \/ GatewayExecuteHello
    \/ DirectHelloOnCall

SpecHello == Init /\ [][NextHello]_vars

(***************************************************************************)
(* Properties of the icon components (checked under SpecIcon)             *)
(***************************************************************************)
DiscordRendered == last.comp = "IconDiscord"
ColorOf(r) == Prop(r.props, "color")
ClassNameOf(r) == Prop(r.props, "className")
PathFill(r) == r.out.children[1].attrs.fill

\* C1 as stated: an IconDiscord rendered without a color prop has the default
\* colour tokens in its svg className and a currentColor path fill, whatever
\* the pass-through attributes, a caller-supplied className included.
C1_DefaultTokensWhateverClassName ==
    (DiscordRendered /\ ColorOf(last) = {}) =>
        /\ Contains(last.out.attrs.className, DefaultColorTokens)
        /\ PathFill(last) = "currentColor"

\* C1 amended: an IconDiscord rendered without a color prop has a currentColor
\* path fill; its svg className is exactly the default colour tokens when
\* className is absent or empty, and is the caller's className verbatim,
\* without the default tokens, when a non-empty className is supplied.
C1_DefaultTokensUnlessClassName ==
    (DiscordRendered /\ ColorOf(last) = {}) =>
        /\ PathFill(last) = "currentColor"
        /\ (\A c \in ClassNameOf(last) : c = "") =>
               last.out.attrs.className = "text-green-200 dark:text-green-100"
        /\ \A c \in ClassNameOf(last) :
               c /= "" => /\ last.out.attrs.className = c
                          /\ ~Contains(last.out.attrs.className, DefaultColorTokens)

\* A render without color and with an empty className next to other
\* pass-through attributes shows the default tokens.
C1_Witness ==
    /\ DiscordRendered /\ ColorOf(last) = {}
    /\ ClassNameOf(last) = {""}
    /\ "width" \in DOMAIN last.props
    /\ last.out.attrs.className = DefaultColorTokens

\* C2 as stated: an IconDiscord rendered with a color prop c, the empty string
\* included, has path fill c and not currentColor.
C2_AnyColorVerbatim ==
    DiscordRendered =>
        \A c \in ColorOf(last) : PathFill(last) = c /\ PathFill(last) /= "currentColor"

\* C2 amended: an IconDiscord rendered with a non-empty color prop c has path
\* fill c, whatever the other attributes; the empty string counts as no color
\* and gives currentColor.
C2_NonEmptyColorVerbatim ==
    DiscordRendered =>
        \A c \in ColorOf(last) :
            /\ c /= "" => PathFill(last) = c
            /\ c = "" => PathFill(last) = "currentColor"

C2_Witness ==
    /\ DiscordRendered /\ ColorOf(last) = {"#5865F2"}
    /\ ClassNameOf(last) /= {}
    /\ PathFill(last) = "#5865F2"

\* The fixed default definition of IconDiscord.
DiscordDefault ==
    [tag |-> "svg",
     attrs |-> [width |-> "40", height |-> "40", viewBox |-> "0 0 40 40", fill |-> "none",
                xmlns |-> "http://www.w3.org/2000/svg",
                className |-> "text-green-200 dark:text-green-100"],
     children |-> << [tag |-> "path",
                      attrs |-> [d |-> DiscordPathData, fill |-> "currentColor"],
                      children |-> <<>>] >>]

SameInputs(r1, r2) ==
    /\ r1.comp = r2.comp
    /\ DOMAIN r1.props = DOMAIN r2.props
    /\ \A n \in DOMAIN r1.props : r1.props[n] = r2.props[n]

Shapes(e) ==
    LET l1 == {e.children[i] : i \in DOMAIN e.children}
        l2 == UNION {{x.children[i] : i \in DOMAIN x.children} : x \in l1}
        l3 == UNION {{x.children[i] : i \in DOMAIN x.children} : x \in l2}
    IN  {x \in l1 \cup l2 \cup l3 : x.tag \in ShapeTags}

\* C10: every render, with each optional prop of IconDiscord present or absent
\* and IconArticle047 without parameters, returns an svg element with at least
\* one shape, and no error.
C10_RenderNeverFails ==
    last.comp /= "none" =>
        /\ last.out /= RenderError
        /\ last.out.tag = "svg"
        /\ Shapes(last.out) /= {}

\* A render with no optional prop at all.
C10_Witness ==
    /\ DiscordRendered
    /\ DOMAIN last.props = {}
    /\ last.out.tag = "svg" /\ Shapes(last.out) /= {}

\* The size attributes of an svg element and the sizes written in the source.
SizeAttrs == {"width", "height", "viewBox"}
SizeOf(e) == [n \in SizeAttrs |-> e.attrs[n]]
DiscordSize == [width |-> "40", height |-> "40", viewBox |-> "0 0 40 40"]
Article047Size == [width |-> "56", height |-> "56", viewBox |-> "0 0 56 56"]

\* C11 as stated: every rendered IconDiscord svg has width 40, height 40 and
\* viewBox '0 0 40 40', every rendered IconArticle047 svg has 56, 56 and
\* '0 0 56 56', whatever pass-through attributes the caller supplies.
C11_FixedIntrinsicSize ==
    /\ DiscordRendered => SizeOf(last.out) = DiscordSize
    /\ last.comp = "IconArticle047" => SizeOf(last.out) = Article047Size

\* C11 amended: a rendered IconArticle047 svg always has width 56, height 56
\* and viewBox '0 0 56 56'; a rendered IconDiscord svg has width 40, height 40
\* and viewBox '0 0 40 40' for each of the three attributes the caller does
\* not supply, and the caller's value verbatim for each one supplied; the
\* color and className props change none of the three.
C11_IntrinsicSizeUnlessSupplied ==
    /\ last.comp = "IconArticle047" => SizeOf(last.out) = Article047Size
    /\ DiscordRendered =>
           \A n \in SizeAttrs :
               /\ n \notin DOMAIN last.props => last.out.attrs[n] = DiscordSize[n]
               /\ n \in DOMAIN last.props => last.out.attrs[n] = last.props[n]

\* A render with a caller-supplied width next to color and className and
\* without height: the width is the caller's, the height the intrinsic one.
C11_Witness ==
    /\ DiscordRendered
    /\ {"width", "color", "className"} \subseteq DOMAIN last.props
    /\ "height" \notin DOMAIN last.props
    /\ last.out.attrs.width = "24" /\ last.out.attrs.height = "40"
    /\ kept.comp = "IconArticle047" /\ SizeOf(kept.out) = Article047Size

(***************************************************************************)
(* Properties of the NFT contracts (checked under Spec and SpecOpen)      *)
(***************************************************************************)
ByGateway == lastOp.sender = "gateway"
\* The call just executed belongs to a transfer some transferCrossChain began.
OfTransfer == lastOp.msg /= NoCctx /\ lastOp.msg.burned /= <<>>
\* The chain a destination argument names.
DestinationChain(destination) ==
    IF destination = ZeroAddress THEN ZetaChain ELSE ChainOf(destination)

\* C3 as stated: a transfer whose mint on the destination fails is answered
\* with a revert to the source chain, and that revert mints the burned token
\* on the source chain to the account that called transferCrossChain.
C3_FailedTransferReturnsToSender ==
    /\ (lastOp.op = "onCall" /\ ByGateway /\ OfTransfer /\ lastOp.reverted) =>
           \E m \in lastOp.sent : m.kind = "revert" /\ m.dst = lastOp.msg.route[1]
    /\ (lastOp.op = "onRevert" /\ ByGateway /\ OfTransfer) =>
           /\ ~lastOp.reverted
           /\ \A mt \in lastOp.minted :
                  /\ mt.chain = lastOp.msg.route[1]
                  /\ mt.to = lastOp.msg.caller

\* The origin the call came with is the counterparty the contract stores.
Authorized ==
    IF lastOp.chain = ZetaChain
    THEN lastOp.context.origin = UniversalCounterparty(lastOp.context.zrc20)
    ELSE lastOp.context.origin = counterparty[lastOp.chain]

\* C4 as stated: onCall mints or forwards only for the stored counterparty,
\* reverts with Unauthorized and without effect otherwise, and so only a
\* call that a contract of the collection sent through the gateway mints.
C4_OnlyCounterpartyCausesMint ==
    lastOp.op = "onCall" =>
        /\ ~Authorized => /\ lastOp.reverted /\ lastOp.reason = "Unauthorized"
                          /\ lastOp.minted = {} /\ lastOp.sent = {}
        /\ (~lastOp.reverted /\ (lastOp.minted /= {} \/ lastOp.sent /= {})) =>
               Authorized /\ ByGateway

\* C5: whatever a gateway call of a transfer mints, on the receiving chain or
\* back on the source chain, has the token id and the URI that
\* transferCrossChain burned, on either hop; so has every message under way.
C5_TokenKeepsIdentity ==
    /\ (ByGateway /\ OfTransfer) =>
           \A mt \in lastOp.minted :
               /\ mt.tokenId = lastOp.msg.burned[1]
               /\ mt.uri = lastOp.msg.burned[2]
               /\ owner[mt.chain][mt.tokenId] = mt.to
               /\ tokenURIs[mt.chain][mt.tokenId] = lastOp.msg.burned[2]
    /\ \A m \in inflight :
           m.burned /= <<>> => /\ m.message[1] = m.burned[1]
                               /\ m.message[3] = m.burned[2]

\* A transfer between two connected chains has minted on the second one.
C5_Witness ==
    /\ lastOp.op = "onCall" /\ ByGateway /\ OfTransfer
    /\ lastOp.chain = "bnb" /\ lastOp.msg.route = <<"eth", ZetaChain, "bnb">>
    /\ lastOp.minted /= {}
    /\ \A mt \in lastOp.minted : mt.uri = "ipfs://a"

\* C7: Connected.transferCrossChain addresses its gateway call to the stored
\* counterparty, the Universal contract on ZetaChain; a transfer between two
\* connected chains arrives on the chain it asked for after exactly two
\* cross-chain transactions, source -> Universal.onCall and then
\* Universal -> counterparty[destination].
C7_AllTransfersThroughZetaChain ==
    /\ \A m \in inflight :
           (m.kind = "call" /\ m.src \in ConnectedChains) =>
               /\ m.dst = ZetaChain
               /\ m.receiver = counterparty[m.src]
               /\ m.receiver = UniversalAddress
    /\ (lastOp.op = "onCall" /\ ByGateway /\ OfTransfer /\ ~lastOp.reverted
          /\ lastOp.msg.route[1] \in ConnectedChains) =>
           IF lastOp.chain = ZetaChain
           THEN /\ lastOp.msg.route = <<lastOp.msg.src, ZetaChain>>
                /\ \A m \in lastOp.sent :
                       /\ m.dst = DestinationChain(lastOp.msg.destination)
                       /\ m.receiver = counterparty[ZetaChain][lastOp.msg.destination]
                       /\ m.route = <<lastOp.msg.src, ZetaChain, m.dst>>
           ELSE /\ lastOp.chain = DestinationChain(lastOp.msg.destination)
                /\ lastOp.msg.route = <<lastOp.msg.route[1], ZetaChain, lastOp.chain>>
                /\ lastOp.msg.sender = UniversalAddress

\* A transfer from eth to bnb has arrived after its two transactions.
C7_Witness ==
    /\ lastOp.op = "onCall" /\ ByGateway /\ OfTransfer /\ ~lastOp.reverted
    /\ lastOp.chain = "eth" /\ lastOp.msg.route = <<"bnb", ZetaChain, "eth">>
    /\ lastOp.msg.destination = ZRC20["eth"]
    /\ lastOp.minted /= {}

\* C8 as stated: when a transfer has completed, the token is held on the
\* destination chain and on no other chain.
C8_HeldOnExactlyDestination ==
    (lastOp.op = "onCall" /\ ByGateway /\ OfTransfer /\ ~lastOp.reverted) =>
        \A mt \in lastOp.minted :
            /\ mt.chain = DestinationChain(lastOp.msg.destination)
            /\ owner[mt.chain][mt.tokenId] = mt.to
            /\ \A c \in Chains \ {mt.chain} : owner[c][mt.tokenId] = ZeroAddress

(***************************************************************************)
(* Properties of Hello (checked under SpecHello)                          *)
(***************************************************************************)
\* C6 as stated: every HelloEvent("Hello on ZetaChain", name) of Hello comes
\* from a call the gateway delivered, never from a direct call of an account.
C6_HelloOnCallOnlyByGateway ==
    \A i \in DOMAIN events :
        (events[i].contract = HelloAddress /\ events[i].event = "HelloEvent") =>
            events[i].msgSender = "gateway"

====
